---- MODULE Spec2Model ----
(***************************************************************************)
(* Model of skills/claude-code-bridge/bridge.py: the file-based question / *)
(* answer relay between an agent session and an external supervisor.       *)
(*                                                                         *)
(* The bridge is one sequential process (pc is its position in the code).  *)
(* Every file-system operation of the bridge is one step, so that the      *)
(* external actor (who writes and removes answer.json), the clock and the  *)
(* termination signal interleave with it between any two operations.       *)
(* write_json_atomic is one step: the rename is its only visible effect.   *)
(* Timestamps and the pid inside the artifacts are left out; nothing in    *)
(* the bridge reads them.                                                  *)
(*                                                                         *)
(* An exception leaving the can_use_tool callback is taken to surface from *)
(* the iteration of query() in run_bridge, i.e. inside its try block.      *)
(***************************************************************************)
EXTENDS Integers, Sequences, FiniteSets, TLC

\* ---- program constants ------------------------------------------------
POLL_INTERVAL == 2
ANSWER_TIMEOUT == 600

\* ---- bounds of the model ----------------------------------------------
MaxQuestions == 2    \* AskUserQuestion calls per run
MaxFaults == 1       \* I/O faults (OSError) injected per run
MaxJitter == 1       \* extra time units that pass outside asyncio.sleep, per wait
MaxMessages == 1     \* AssistantMessage blocks logged per run

\* ---- data ---------------------------------------------------------------
\* A file is a sequence: <<>> when it does not exist, <<content>> when it does.
\* The same encoding is used for None / a value.
NoFile == <<>>
None == <<>>

\* a python dict from question text to answer text
EmptyDict == [k \in {} |-> ""]

Opt(l) == [label |-> l]

\* sub-questions; q.get("options", []) makes a missing "options" key the
\* empty list, so one encoding covers both
QProceed == [question |-> "Proceed?", options |-> <<Opt("Yes"), Opt("No")>>]
QColor == [question |-> "Color?", options |-> <<>>]
QSize == [question |-> "Size?", options |-> <<Opt("L")>>]

\* the question sets the agent may pass; question texts within one set are
\* distinct (the answers are keyed by question text)
QuestionSets ==
  { <<>>, <<QProceed>>, <<QProceed, QColor>>, <<QColor, QSize>> }

\* content of answer.json as json.loads sees it: unparseable text (this
\* includes the empty file), or an object with some of the keys
Json(p, ks, a, t) == [parseable |-> p, keys |-> ks, answers |-> a, text |-> t]
ExplicitMapping == ("Proceed?" :> "No")
Unparseable == Json(FALSE, {}, EmptyDict, "")
AnswerBodies ==
  { Json(TRUE, {"answers"}, ExplicitMapping, ""),
    Json(TRUE, {"text"}, EmptyDict, "Blue"),
    Json(TRUE, {"answers", "text"}, ExplicitMapping, "Blue"),
    Json(TRUE, {}, EmptyDict, ""),
    Json(TRUE, {"other"}, EmptyDict, ""),
    Unparseable }

Status(s, d) == <<[status |-> s, detail |-> d]>>
Exc(t, m) == <<[type |-> t, msg |-> m]>>

VARIABLES
  pc,           \* position of the bridge process
  taskDir,      \* the task directory exists
  artifacts,    \* which of bridge.pid, task.json, output.log exist
  status,       \* status.json
  question,     \* question.json
  answer,       \* answer.json
  result,       \* result.json
  resultWrites, \* how often result.json has been written
  log,          \* lines of output.log, by kind
  questions,    \* handle_ask_user_question: local 'questions'
  answer_data,  \* handle_ask_user_question: local 'answer_data'
  elapsed,      \* time.time() - start_time, as the timeout check reads it
  jitter,       \* extra time units so far in this wait
  toolResult,   \* the permission result handed back to the session
  offered,      \* the explicit mapping the actor has put up for this question
  staleDropped, \* this call has removed an answer.json left from before it
  exc,          \* the exception in flight
  exitCode,     \* process exit code, <<>> while the process runs
  message,      \* the session's ResultMessage, <<>> before it arrives
  asked,        \* AskUserQuestion calls so far
  faults,       \* I/O faults so far
  messages,     \* assistant blocks logged so far
  unobserved,   \* answer.json was written after the bridge last looked at it
  stamp         \* when answer.json was written: <<questions asked so far,
                \* question.json was present, the call's stale-answer
                \* removal was over>>

vars == <<pc, taskDir, artifacts, status, question, answer, result,
          resultWrites, log,
          questions, answer_data, elapsed, jitter, toolResult, offered,
          staleDropped, exc, exitCode, message, asked, faults, messages,
          unobserved, stamp>>

fsVars == <<taskDir, artifacts, status, question, answer, result,
            resultWrites, log>>
frameVars == <<questions, answer_data, elapsed, jitter, toolResult, offered,
               staleDropped>>
runVars == <<exc, exitCode, message>>
countVars == <<asked, faults, messages>>

\* state after main() has installed the SIGTERM handler and before
\* run_bridge starts
Init ==
  /\ pc = "mkdir"
  /\ taskDir = FALSE
  /\ artifacts = {}
  /\ status = NoFile
  /\ question = NoFile
  /\ answer = NoFile
  /\ result = NoFile
  /\ resultWrites = 0
  /\ log = <<>>
  /\ questions = <<>>
  /\ answer_data = None
  /\ elapsed = 0
  /\ toolResult = None
  /\ offered = None
  /\ staleDropped = FALSE
  /\ exc = None
  /\ exitCode = <<>>
  /\ message = None
  /\ asked = 0
  /\ faults = 0
  /\ jitter = 0
  /\ messages = 0
  /\ unobserved = FALSE
  /\ stamp = <<0, FALSE, FALSE>>

\* ---- helpers ------------------------------------------------------------
write_status(s, d) == status' = Status(s, d)

append_log(line) == log' = Append(log, line)

Goto(l) == pc' = l

\* positions at which the process has ended
Terminal == {"done", "failed", "exited"}

\* positions inside the try block of run_bridge (the callback included)
TryPcs ==
  { "session", "write_result", "final_status", "resumed",
    "q_write", "q_status", "stale_exists", "stale_unlink", "start_timer",
    "poll_exists", "read_exists", "read_text", "unlink_q", "unlink_a",
    "status_recv", "return_answer", "check_timeout", "to_unlink_q",
    "to_status", "return_default", "sleep" }

\* positions whose next operation is file I/O of the bridge
IOPcs ==
  { "mkdir", "write_pid", "write_task", "status_starting", "touch_log",
    "status_running", "q_write", "q_status", "stale_unlink", "read_text",
    "unlink_q", "unlink_a", "status_recv", "to_unlink_q", "to_status",
    "write_result", "final_status", "except_status", "except_log" }

\* stamp of answer.json while there is no such file
NoStamp == <<0, FALSE, FALSE>>

\* the frame of handle_ask_user_question is gone (return or unwinding)
FrameGone ==
  /\ questions' = <<>>
  /\ answer_data' = None
  /\ elapsed' = 0
  /\ jitter' = 0
  /\ toolResult' = None
  /\ offered' = None
  /\ staleDropped' = FALSE

\* the process ends with exit code c
Exit(l, c) ==
  /\ Goto(l)
  /\ exitCode' = <<c>>
  /\ unobserved' = FALSE
  /\ UNCHANGED stamp

\* an exception raised at position p: caught by 'except Exception' when p is
\* inside the try block, otherwise it ends the process with a traceback
Raise(p, e) ==
  /\ exc' = e
  /\ FrameGone
  /\ IF p \in TryPcs
       THEN /\ Goto("except_status")
            /\ UNCHANGED <<exitCode, unobserved, stamp>>
       ELSE Exit("failed", 1)

\* ---- run_bridge: set-up ---------------------------------------------------
MakeTaskDir ==
  /\ pc = "mkdir"
  /\ taskDir' = TRUE
  /\ Goto("write_pid")
  /\ UNCHANGED <<artifacts, status, question, answer, result, resultWrites, log>>
  /\ UNCHANGED <<frameVars, runVars, countVars, unobserved, stamp>>

WritePid ==
  /\ pc = "write_pid"
  /\ artifacts' = artifacts \cup {"bridge.pid"}
  /\ Goto("write_task")
  /\ UNCHANGED <<taskDir, status, question, answer, result, resultWrites, log>>
  /\ UNCHANGED <<frameVars, runVars, countVars, unobserved, stamp>>

WriteTask ==
  /\ pc = "write_task"
  /\ artifacts' = artifacts \cup {"task.json"}
  /\ Goto("status_starting")
  /\ UNCHANGED <<taskDir, status, question, answer, result, resultWrites, log>>
  /\ UNCHANGED <<frameVars, runVars, countVars, unobserved, stamp>>

StatusStarting ==
  /\ pc = "status_starting"
  /\ write_status("starting", "Initializing Claude Code session")
  /\ Goto("touch_log")
  /\ UNCHANGED <<taskDir, artifacts, question, answer, result, resultWrites, log>>
  /\ UNCHANGED <<frameVars, runVars, countVars, unobserved, stamp>>

TouchLog ==
  /\ pc = "touch_log"
  /\ artifacts' = artifacts \cup {"output.log"}
  /\ Goto("status_running")
  /\ UNCHANGED <<taskDir, status, question, answer, result, resultWrites, log>>
  /\ UNCHANGED <<frameVars, runVars, countVars, unobserved, stamp>>

StatusRunning ==
  /\ pc = "status_running"
  /\ write_status("running", "Claude Code session active")
  /\ Goto("session")
  /\ UNCHANGED <<taskDir, artifacts, question, answer, result, resultWrites, log>>
  /\ UNCHANGED <<frameVars, runVars, countVars, unobserved, stamp>>

\* ---- run_bridge: the message loop ----------------------------------------
\* an AssistantMessage block: a TextBlock or a ToolUseBlock is logged
AssistantBlock ==
  /\ pc = "session"
  /\ messages < MaxMessages
  /\ \E line \in {"text", "[Tool]"} : append_log(line)
  /\ messages' = messages + 1
  /\ UNCHANGED <<pc, taskDir, artifacts, status, question, answer, result, resultWrites>>
  /\ UNCHANGED <<frameVars, runVars, asked, faults, unobserved, stamp>>

\* the session's ResultMessage arrives
ResultArrives ==
  /\ pc = "session"
  /\ message = None
  /\ \E e \in BOOLEAN : message' = <<[is_error |-> e]>>
  /\ Goto("write_result")
  /\ UNCHANGED <<fsVars, frameVars, exc, exitCode, countVars, unobserved, stamp>>

\* mutant: the result is not written before the status is set
WriteResult_Deferred ==
  /\ pc = "write_result"
  /\ Goto("final_status")
  /\ UNCHANGED <<fsVars, frameVars, runVars, countVars, unobserved, stamp>>

WriteResult ==
  /\ pc = "write_result"
  /\ result' = <<[subtype |-> "result", is_error |-> message[1].is_error]>>
  /\ resultWrites' = resultWrites + 1
  /\ Goto("final_status")
  /\ UNCHANGED <<taskDir, artifacts, status, question, answer, log>>
  /\ UNCHANGED <<frameVars, runVars, countVars, unobserved, stamp>>

FinalStatus ==
  /\ pc = "final_status"
  /\ IF message[1].is_error
       THEN write_status("error", "Claude Code reported an error")
       ELSE write_status("complete", "Task finished successfully")
  /\ Goto("session")
  /\ UNCHANGED <<taskDir, artifacts, question, answer, result, resultWrites, log>>
  /\ UNCHANGED <<frameVars, runVars, countVars, unobserved, stamp>>

\* query() is exhausted after its ResultMessage: run_bridge returns
SessionEnds ==
  /\ pc = "session"
  /\ message # None
  /\ Exit("done", 0)
  /\ UNCHANGED <<fsVars, frameVars, exc, message, countVars>>

\* query() raises
SessionFault ==
  /\ pc = "session"
  /\ Raise(pc, Exc("ProcessError", "session failed"))
  /\ UNCHANGED <<fsVars, message, countVars>>

\* mutant: the except block also leaves a result record
ExceptStatus_WithResult ==
  /\ pc = "except_status"
  /\ write_status("error", exc[1].type \o ": " \o exc[1].msg)
  /\ result' = <<[subtype |-> "error", is_error |-> TRUE]>>
  /\ resultWrites' = resultWrites + 1
  /\ Goto("except_log")
  /\ UNCHANGED <<taskDir, artifacts, question, answer, log>>
  /\ UNCHANGED <<frameVars, runVars, countVars, unobserved, stamp>>

\* except Exception as e: status, log line, re-raise
ExceptStatus ==
  /\ pc = "except_status"
  /\ write_status("error", exc[1].type \o ": " \o exc[1].msg)
  /\ Goto("except_log")
  /\ UNCHANGED <<taskDir, artifacts, question, answer, result, resultWrites, log>>
  /\ UNCHANGED <<frameVars, runVars, countVars, unobserved, stamp>>

ExceptLog ==
  /\ pc = "except_log"
  /\ append_log("[BRIDGE ERROR] " \o exc[1].type \o ": " \o exc[1].msg)
  /\ Goto("reraise")
  /\ UNCHANGED <<taskDir, artifacts, status, question, answer, result, resultWrites>>
  /\ UNCHANGED <<frameVars, runVars, countVars, unobserved, stamp>>

Reraise ==
  /\ pc = "reraise"
  /\ Exit("failed", 1)
  /\ UNCHANGED <<fsVars, frameVars, exc, message, countVars>>

\* ---- can_use_tool ---------------------------------------------------------
Allow(tool, qs, ans, how) ==
  <<[tool |-> tool, questions |-> qs, answers |-> ans, via |-> how]>>

\* any tool but AskUserQuestion is approved with its input unchanged
AutoApprove ==
  /\ pc = "session"
  /\ message = None
  /\ toolResult' = Allow("Other", <<>>, EmptyDict, "auto")
  /\ Goto("resumed")
  /\ UNCHANGED <<fsVars, questions, staleDropped, answer_data, elapsed, jitter, offered>>
  /\ UNCHANGED <<runVars, countVars, unobserved, stamp>>

\* AskUserQuestion: questions = input_data.get("questions", [])
AskUserQuestion ==
  /\ pc = "session"
  /\ message = None
  /\ asked < MaxQuestions
  /\ \E qs \in QuestionSets : questions' = qs
  /\ asked' = asked + 1
  /\ Goto("q_write")
  /\ UNCHANGED <<fsVars, answer_data, elapsed, jitter, toolResult, offered>>
  /\ UNCHANGED <<staleDropped, runVars, faults, messages, unobserved, stamp>>

\* the session takes the permission result and goes on
Resume ==
  /\ pc = "resumed"
  /\ FrameGone
  /\ Goto("session")
  /\ UNCHANGED <<fsVars, runVars, countVars, unobserved, stamp>>

\* ---- handle_ask_user_question --------------------------------------------
WriteQuestion ==
  /\ pc = "q_write"
  /\ question' = <<[questions |-> questions]>>
  /\ Goto("q_status")
  /\ UNCHANGED <<taskDir, artifacts, status, answer, result, resultWrites, log>>
  /\ UNCHANGED <<frameVars, runVars, countVars, unobserved, stamp>>

StatusWaiting ==
  /\ pc = "q_status"
  /\ write_status("waiting_for_answer", "Claude is asking a clarifying question")
  /\ Goto("stale_exists")
  /\ UNCHANGED <<taskDir, artifacts, question, answer, result, resultWrites, log>>
  /\ UNCHANGED <<frameVars, runVars, countVars, unobserved, stamp>>

\* mutant: polling starts without looking for an old answer
StaleExists_Skipped ==
  /\ pc = "stale_exists"
  /\ Goto("start_timer")
  /\ unobserved' = FALSE
  /\ UNCHANGED <<fsVars, frameVars, runVars, countVars, stamp>>

\* if answer_path.exists():
StaleExists ==
  /\ pc = "stale_exists"
  /\ IF answer # NoFile THEN Goto("stale_unlink") ELSE Goto("start_timer")
  /\ unobserved' = FALSE
  /\ UNCHANGED <<fsVars, frameVars, runVars, countVars, stamp>>

\* answer_path.unlink(): raises when the file has gone since the check
StaleUnlink ==
  /\ pc = "stale_unlink"
  /\ IF answer # NoFile
       THEN /\ answer' = NoFile
            /\ unobserved' = FALSE
            /\ stamp' = NoStamp
            /\ staleDropped' = (staleDropped \/ stamp[1] < asked)
            /\ Goto("start_timer")
            /\ UNCHANGED <<questions, answer_data, elapsed, jitter>>
            /\ UNCHANGED <<toolResult, offered, exc, exitCode>>
       ELSE /\ Raise(pc, Exc("FileNotFoundError", "answer.json"))
            /\ UNCHANGED answer
  /\ UNCHANGED <<taskDir, artifacts, status, question, result, resultWrites, log>>
  /\ UNCHANGED <<message, countVars>>

\* start_time = time.time()
StartTimer ==
  /\ pc = "start_timer"
  /\ elapsed' = 0
  /\ jitter' = 0
  /\ Goto("poll_exists")
  /\ UNCHANGED <<fsVars, questions, staleDropped, answer_data, toolResult, offered>>
  /\ UNCHANGED <<runVars, countVars, unobserved, stamp>>

\* while True: if answer_path.exists():
\* (the clock is not read again once the answer has been seen)
PollExists ==
  /\ pc = "poll_exists"
  /\ IF answer # NoFile
       THEN /\ Goto("read_exists")
            /\ elapsed' = 0
            /\ jitter' = 0
       ELSE /\ Goto("check_timeout")
            /\ UNCHANGED <<elapsed, jitter>>
  /\ unobserved' = FALSE
  /\ UNCHANGED stamp
  /\ UNCHANGED <<fsVars, questions, staleDropped, answer_data, toolResult, offered>>
  /\ UNCHANGED <<runVars, countVars>>

\* read_json: if filepath.exists(): ... return None
ReadExists ==
  /\ pc = "read_exists"
  /\ IF answer # NoFile
       THEN /\ Goto("read_text")
            /\ UNCHANGED answer_data
       ELSE /\ answer_data' = None
            /\ Goto("unlink_q")
  /\ UNCHANGED <<fsVars, questions, staleDropped, elapsed, jitter, toolResult, offered>>
  /\ UNCHANGED <<runVars, countVars, unobserved, stamp>>

\* read_json: json.loads(filepath.read_text())
ReadText ==
  /\ pc = "read_text"
  /\ IF answer = NoFile
       THEN Raise(pc, Exc("FileNotFoundError", "answer.json"))
       ELSE IF ~answer[1].parseable
         THEN Raise(pc, Exc("JSONDecodeError", "Expecting value"))
         ELSE /\ answer_data' = answer
              /\ Goto("unlink_q")
              /\ UNCHANGED <<questions, staleDropped, elapsed, jitter, toolResult, offered>>
              /\ UNCHANGED <<exc, exitCode, unobserved, stamp>>
  /\ UNCHANGED <<fsVars, message, countVars>>

\* (_task_dir / "question.json").unlink(missing_ok=True)
UnlinkQuestion ==
  /\ pc = "unlink_q"
  /\ question' = NoFile
  /\ Goto("unlink_a")
  /\ UNCHANGED <<taskDir, artifacts, status, answer, result, resultWrites, log>>
  /\ UNCHANGED <<frameVars, runVars, countVars, unobserved, stamp>>

\* mutant: the consumed answer is left in place
UnlinkAnswer_Kept ==
  /\ pc = "unlink_a"
  /\ Goto("status_recv")
  /\ UNCHANGED <<fsVars, frameVars, runVars, countVars, unobserved, stamp>>

\* answer_path.unlink(missing_ok=True)
UnlinkAnswer ==
  /\ pc = "unlink_a"
  /\ answer' = NoFile
  /\ unobserved' = FALSE
  /\ stamp' = NoStamp
  /\ Goto("status_recv")
  /\ UNCHANGED <<taskDir, artifacts, status, question, result, resultWrites, log>>
  /\ UNCHANGED <<frameVars, runVars, countVars>>

StatusReceived ==
  /\ pc = "status_recv"
  /\ write_status("running", "Received answer, continuing")
  /\ Goto("return_answer")
  /\ UNCHANGED <<taskDir, artifacts, question, answer, result, resultWrites, log>>
  /\ UNCHANGED <<frameVars, runVars, countVars, unobserved, stamp>>

\* python truth value of the parsed answer: None and {} are false
Truthy(ad) == ad # None /\ ad[1].keys # {}

\* mutant: the free text is bound to the last sub-question
MapAnswer_Last(ad, qs) ==
  IF Truthy(ad) /\ "answers" \in ad[1].keys
    THEN ad[1].answers
    ELSE IF Truthy(ad) /\ "text" \in ad[1].keys
      THEN IF qs # <<>>
             THEN (qs[Len(qs)].question :> ad[1].text)
             ELSE EmptyDict
      ELSE EmptyDict

\* Map answer to SDK format
MapAnswer(ad, qs) ==
  IF Truthy(ad) /\ "answers" \in ad[1].keys
    THEN ad[1].answers
    ELSE IF Truthy(ad) /\ "text" \in ad[1].keys
      THEN IF qs # <<>>
             THEN (qs[1].question :> ad[1].text)
             ELSE EmptyDict
      ELSE EmptyDict

ReturnAnswer ==
  /\ pc = "return_answer"
  /\ toolResult' = Allow("AskUserQuestion", questions,
                         MapAnswer(answer_data, questions), "answer")
  /\ Goto("resumed")
  /\ UNCHANGED <<fsVars, questions, staleDropped, answer_data, elapsed, jitter, offered>>
  /\ UNCHANGED <<runVars, countVars, unobserved, stamp>>

\* if time.time() - start_time > ANSWER_TIMEOUT:
\* mutant: the deadline is taken one poll interval early
TimedOut_Early(t) == t > ANSWER_TIMEOUT - POLL_INTERVAL

TimedOut(t) == t > ANSWER_TIMEOUT

CheckTimeout ==
  /\ pc = "check_timeout"
  /\ IF TimedOut(elapsed) THEN Goto("to_unlink_q") ELSE Goto("sleep")
  /\ UNCHANGED <<fsVars, frameVars, runVars, countVars, unobserved, stamp>>

\* mutant: the question is left in place on timeout
TimeoutUnlinkQuestion_Kept ==
  /\ pc = "to_unlink_q"
  /\ Goto("to_status")
  /\ UNCHANGED <<fsVars, frameVars, runVars, countVars, unobserved, stamp>>

TimeoutUnlinkQuestion ==
  /\ pc = "to_unlink_q"
  /\ question' = NoFile
  /\ Goto("to_status")
  /\ UNCHANGED <<taskDir, artifacts, status, answer, result, resultWrites, log>>
  /\ UNCHANGED <<frameVars, runVars, countVars, unobserved, stamp>>

\* mutant: the timeout is recorded as an error
StatusTimedOut_Error ==
  /\ pc = "to_status"
  /\ write_status("error", "Answer timed out")
  /\ Goto("return_default")
  /\ UNCHANGED <<taskDir, artifacts, question, answer, result, resultWrites, log>>
  /\ UNCHANGED <<frameVars, runVars, countVars, unobserved, stamp>>

StatusTimedOut ==
  /\ pc = "to_status"
  /\ write_status("running", "Answer timed out, continuing with default")
  /\ Goto("return_default")
  /\ UNCHANGED <<taskDir, artifacts, question, answer, result, resultWrites, log>>
  /\ UNCHANGED <<frameVars, runVars, countVars, unobserved, stamp>>

\* mutant: the last option is taken
DefaultFor_Last(q) ==
  IF q.options # <<>> THEN q.options[Len(q.options)].label ELSE "No preference"

\* default for one sub-question: first option's label, else the placeholder
DefaultFor(q) ==
  IF q.options # <<>> THEN q.options[1].label ELSE "No preference"

\* for q in questions: default_answers[q["question"]] = ...
RECURSIVE DefaultLoop(_, _, _)
DefaultLoop(qs, i, d) ==
  IF i > Len(qs)
    THEN d
    ELSE DefaultLoop(qs, i + 1, (qs[i].question :> DefaultFor(qs[i])) @@ d)

DefaultAnswers(qs) == DefaultLoop(qs, 1, EmptyDict)

ReturnDefault ==
  /\ pc = "return_default"
  /\ toolResult' = Allow("AskUserQuestion", questions,
                         DefaultAnswers(questions), "timeout")
  /\ Goto("resumed")
  /\ UNCHANGED <<fsVars, questions, staleDropped, answer_data, elapsed, jitter, offered>>
  /\ UNCHANGED <<runVars, countVars, unobserved, stamp>>

\* await asyncio.sleep(POLL_INTERVAL)
Sleep ==
  /\ pc = "sleep"
  /\ elapsed' = elapsed + POLL_INTERVAL
  /\ Goto("poll_exists")
  /\ UNCHANGED <<fsVars, questions, staleDropped, answer_data, jitter, toolResult, offered>>
  /\ UNCHANGED <<runVars, countVars, unobserved, stamp>>

\* ---- environment ----------------------------------------------------------
\* time that passes between two statements of the poll loop
Tick ==
  /\ pc \in {"poll_exists", "check_timeout"}
  /\ jitter < MaxJitter
  /\ elapsed' = elapsed + 1
  /\ jitter' = jitter + 1
  /\ UNCHANGED <<pc, fsVars, questions, staleDropped, answer_data, toolResult, offered>>
  /\ UNCHANGED <<runVars, countVars, unobserved, stamp>>

\* positions at which the question is published, no answer has been seen
\* yet and the wait is not over
OpenPcs ==
  { "q_status", "stale_exists", "stale_unlink", "start_timer",
    "poll_exists", "check_timeout", "sleep" }

\* positions of handle_ask_user_question after its stale-answer removal
AfterStalePcs ==
  { "start_timer", "poll_exists", "read_exists", "read_text", "unlink_q",
    "unlink_a", "status_recv", "return_answer", "check_timeout", "sleep",
    "to_unlink_q", "to_status", "return_default" }

\* the external actor puts an answer into the task directory; 'offered'
\* remembers an explicit mapping put up while the question is open and the
\* deadline has not passed
ActorWrites ==
  /\ taskDir
  /\ pc \notin Terminal
  /\ \E body \in AnswerBodies :
       /\ answer' = <<body>>
       /\ offered' = IF /\ pc \in OpenPcs
                        /\ elapsed < ANSWER_TIMEOUT
                        /\ body.parseable
                        /\ "answers" \in body.keys
                       THEN <<body.answers>>
                       ELSE None
  /\ unobserved' = TRUE
  /\ stamp' = <<asked, question # NoFile, pc \in AfterStalePcs>>
  /\ UNCHANGED <<pc, taskDir, artifacts, status, question, result, resultWrites, log>>
  /\ UNCHANGED <<questions, staleDropped, answer_data, elapsed, jitter, toolResult>>
  /\ UNCHANGED <<runVars, countVars>>

\* the external actor takes its answer back
ActorRemoves ==
  /\ pc \notin Terminal
  /\ answer # NoFile
  /\ answer' = NoFile
  /\ offered' = None
  /\ unobserved' = FALSE
  /\ stamp' = NoStamp
  /\ UNCHANGED <<pc, taskDir, artifacts, status, question, result, resultWrites, log>>
  /\ UNCHANGED <<questions, staleDropped, answer_data, elapsed, jitter, toolResult>>
  /\ UNCHANGED <<runVars, countVars>>

\* a file operation of the bridge fails with OSError
IOFault ==
  /\ pc \in IOPcs
  /\ faults < MaxFaults
  /\ faults' = faults + 1
  /\ Raise(pc, Exc("OSError", "I/O error"))
  /\ UNCHANGED <<fsVars, message, asked, messages>>

\* mutant: the handler records the signal but does not exit
sigterm_handler_NoExit ==
  /\ pc \notin Terminal
  /\ taskDir
  /\ status # Status("error", "Process terminated by signal")
  /\ write_status("error", "Process terminated by signal")
  /\ UNCHANGED <<pc, taskDir, artifacts, question, answer, result, resultWrites, log>>
  /\ UNCHANGED <<frameVars, runVars, countVars, unobserved, stamp>>

\* main.sigterm_handler: write_status(...); sys.exit(1).  Before the task
\* directory exists the write raises and the exception ends the process.
sigterm_handler ==
  /\ pc \notin Terminal
  /\ IF taskDir
       THEN /\ write_status("error", "Process terminated by signal")
            /\ Exit("exited", 1)
            /\ UNCHANGED exc
       ELSE /\ exc' = Exc("FileNotFoundError", "status.tmp")
            /\ Exit("failed", 1)
            /\ UNCHANGED status
  /\ FrameGone
  /\ UNCHANGED <<taskDir, artifacts, question, answer, result, resultWrites, log>>
  /\ UNCHANGED <<message, countVars>>

\* ---- specification --------------------------------------------------------
Setup ==
  \/ MakeTaskDir \/ WritePid \/ WriteTask
  \/ StatusStarting \/ TouchLog \/ StatusRunning

Session ==
  \/ AssistantBlock \/ AutoApprove \/ AskUserQuestion \/ Resume
  \/ ResultArrives \/ WriteResult \/ FinalStatus \/ SessionEnds

Handler ==
  \/ WriteQuestion \/ StatusWaiting \/ StaleExists \/ StaleUnlink
  \/ StartTimer \/ PollExists \/ ReadExists \/ ReadText
  \/ UnlinkQuestion \/ UnlinkAnswer \/ StatusReceived \/ ReturnAnswer
  \/ CheckTimeout \/ TimeoutUnlinkQuestion \/ StatusTimedOut
  \/ ReturnDefault \/ Sleep

Except == ExceptStatus \/ ExceptLog \/ Reraise

Bridge == Setup \/ Session \/ Handler \/ Except

Next ==
  \/ Bridge
  \/ SessionFault
  \/ IOFault
  \/ Tick
  \/ ActorWrites
  \/ ActorRemoves
  \/ sigterm_handler

Spec == Init /\ [][Next]_vars

\* the bridge process is scheduled whenever it can take a step; asyncio.sleep
\* returns, so time advances with it
LiveSpec == Spec /\ WF_vars(Bridge)

\* ---- properties ------------------------------------------------------------
\* state tag of status.json
TagOf(s) == IF s = NoFile THEN "none" ELSE s[1].status
Tag == TagOf(status)

\* handle_ask_user_question has just returned its result to the session
Resolved == pc = "resumed" /\ toolResult[1].tool = "AskUserQuestion"

\* C1 as stated: once a question is resolved and the tool call resumed,
\* question.json and answer.json are both absent, whatever the actor does.
C1_BothAbsent ==
  Resolved => question = NoFile /\ answer = NoFile

\* C1 amended: once a question is resolved, question.json is absent, and
\* answer.json is absent unless the actor wrote it after the bridge last
\* checked for it or deleted it.
C1_Cleanup ==
  Resolved => question = NoFile /\ (answer # NoFile => unobserved)

C1_Witness ==
  /\ Resolved
  /\ toolResult[1].via = "answer"
  /\ answer_data # None
  /\ question = NoFile
  /\ answer = NoFile

\* C2 as stated: whenever question.json is present, the status tag is
\* waiting_for_answer.
C2_QuestionImpliesWaiting ==
  question # NoFile => Tag = "waiting_for_answer"

\* C2 amended: whenever question.json is present, the status tag is
\* waiting_for_answer, except between the question write and the status
\* write of handle_ask_user_question (tag still running) and once a
\* termination signal or an exception has ended the wait.
C2_WaitingWhileAsked ==
  question # NoFile =>
    \/ Tag = "waiting_for_answer"
    \/ pc = "q_status" /\ Tag = "running"
    \/ pc \in {"except_status", "except_log", "reraise", "failed", "exited"}

C2_Witness ==
  /\ question # NoFile
  /\ Tag = "waiting_for_answer"
  /\ pc = "sleep"
  /\ elapsed > 0


\* C3: an answer.json with an explicit mapping that appears while the
\* question is open and before the deadline is what the call returns.
C3_ExplicitMappingReturned ==
  Resolved /\ offered # None =>
    /\ toolResult[1].via = "answer"
    /\ toolResult[1].answers = offered[1]

\* C4: on timeout the call resumes with one entry per sub-question: the
\* label of its first option, or "No preference" when it has no option.
C4_TimeoutDefaults ==
  Resolved /\ toolResult[1].via = "timeout" =>
    LET qs == toolResult[1].questions
        a == toolResult[1].answers
    IN /\ qs = questions
       /\ DOMAIN a = {qs[i].question : i \in 1..Len(qs)}
       /\ Cardinality(DOMAIN a) = Len(qs)
       /\ \A i \in 1..Len(qs) :
            a[qs[i].question] =
              IF Len(qs[i].options) >= 1
                THEN qs[i].options[1].label
                ELSE "No preference"

C4_Witness ==
  /\ Resolved
  /\ toolResult[1].via = "timeout"
  /\ questions = <<QProceed, QColor>>
  /\ toolResult[1].answers = ("Proceed?" :> "Yes") @@ ("Color?" :> "No preference")

\* the answer that was read carries the free-text field and nothing else
TextOnly(ad) == ad # None /\ ad[1].keys = {"text"}

\* C5 as stated: a free-text answer yields exactly one entry, first
\* sub-question's text -> the free text, for every question set.
C5_TextBindsFirst ==
  Resolved /\ toolResult[1].via = "answer" /\ TextOnly(answer_data) =>
    /\ Len(questions) >= 1
    /\ toolResult[1].answers = (questions[1].question :> answer_data[1].text)

\* C5 amended: a free-text answer yields exactly one entry, first
\* sub-question's text -> the free text, for every non-empty question set,
\* and the empty mapping for the empty question set.
C5_TextBindsFirstIfAny ==
  Resolved /\ toolResult[1].via = "answer" /\ TextOnly(answer_data) =>
    toolResult[1].answers =
      IF Len(questions) >= 1
        THEN (questions[1].question :> answer_data[1].text)
        ELSE EmptyDict

C5_Witness ==
  /\ Resolved
  /\ toolResult[1].via = "answer"
  /\ TextOnly(answer_data)
  /\ questions = <<QProceed, QColor>>
  /\ toolResult[1].answers = ("Proceed?" :> "Blue")


\* C6: whenever the status is waiting_for_answer, the wait ends and the tool
\* call is resumed with status running, whatever the actor does or does not
\* write; a termination signal or an OSError of the file system ends the
\* run instead.
C6_WaitEnds ==
  (Tag = "waiting_for_answer" /\ pc \notin Terminal)
    ~> \/ Tag = "running"
       \/ pc = "exited"
       \/ exc # None /\ exc[1].type = "OSError"

\* the changes of the state tag the status state machine lists
Listed ==
  { <<"none", "starting">>,
    <<"starting", "running">>,
    <<"running", "waiting_for_answer">>,
    <<"waiting_for_answer", "running">>,
    <<"running", "complete">>,
    <<"running", "error">> }

\* the step is the termination signal forcing the status to error
BySignal == pc' = "exited" /\ TagOf(status') = "error"

\* the step is the except block of run_bridge recording an exception
ByExcept == pc = "except_status" /\ TagOf(status') = "error"

\* C7 as stated: every change of the state tag is one of the listed ones or
\* any state -> error by the termination signal; complete and error are
\* left only by that signal.
C7_ListedTransitions ==
  [][(TagOf(status') # Tag) =>
       ((<<Tag, TagOf(status')>> \in Listed) \/ BySignal)]_vars

\* C7 amended: every change of the state tag is one of the listed ones, or
\* any state -> error by the termination signal, or waiting_for_answer ->
\* error or complete -> error by the except block of run_bridge.
C7_Transitions ==
  [][(TagOf(status') # Tag) =>
       ( (<<Tag, TagOf(status')>> \in Listed)
         \/ BySignal
         \/ (ByExcept /\ Tag \in {"waiting_for_answer", "complete"}) )]_vars

C7_Witness ==
  /\ pc = "done"
  /\ Tag = "complete"
  /\ asked >= 1

\* the parsed answer carries neither 'answers' nor 'text', or there is none
Malformed(ad) == ad = None \/ ad[1].keys \cap {"answers", "text"} = {}

\* C8: an answer.json that is unparseable, empty, without 'answers' and
\* 'text', or gone when it is read does not make the call fail: it resumes
\* with the empty mapping, question.json deleted and status running.
C8_MalformedTolerated ==
  /\ [](Resolved /\ toolResult[1].via = "answer" /\ Malformed(answer_data) =>
          /\ toolResult[1].answers = EmptyDict
          /\ question = NoFile
          /\ Tag = "running")
  /\ [][(pc \in {"read_exists", "read_text"} /\ exc' # None) =>
          (exc'[1].type = "OSError")]_vars

SignalStatus == Status("error", "Process terminated by signal")

\* C9: a termination signal that arrives once the task directory exists
\* leaves status error / "Process terminated by signal", nothing replaces
\* that status afterwards, and the process has exited with code 1.
C9_SignalForcesError ==
  /\ [](status = SignalStatus => pc = "exited" /\ exitCode = <<1>>)
  /\ [][(sigterm_handler /\ taskDir) => (status' = SignalStatus)]_vars
  /\ [][(status = SignalStatus) => (status' = SignalStatus)]_vars

C9_Witness ==
  /\ pc = "exited"
  /\ status = SignalStatus
  /\ exitCode = <<1>>
  /\ result # NoFile
  /\ ~result[1].is_error

\* C10: a run that an exception of the session or of the file I/O has ended
\* (status.json already there) has status error with detail
\* '<type>: <message>', a '[BRIDGE ERROR]' line at the end of the log, and
\* a non-zero exit code.
C10_FaultRecorded ==
  pc = "failed" /\ status # NoFile =>
    /\ status = Status("error", exc[1].type \o ": " \o exc[1].msg)
    /\ log # <<>>
    /\ log[Len(log)] = "[BRIDGE ERROR] " \o exc[1].type \o ": " \o exc[1].msg
    /\ exitCode = <<1>>


\* the run ended on a terminal status
Ended == pc \in Terminal /\ Tag \in {"complete", "error"}

\* C11 as stated: every run that ends on a terminal status has written
\* result.json exactly once.
C11_ExactlyOnce ==
  Ended => resultWrites = 1

\* C11 amended: result.json is written at most once per run, on the
\* session's ResultMessage and before the status derived from it; a run
\* that ends complete has written it exactly once, a run that an exception
\* or the termination signal ends before the ResultMessage never writes it.
C11_OnceOnResult ==
  /\ resultWrites <= 1
  /\ (resultWrites = 1) = (result # NoFile)
  /\ resultWrites = 1 => message # None
  /\ Tag = "complete" => resultWrites = 1
  /\ pc \in Terminal /\ message = None => resultWrites = 0

C11_Witness ==
  /\ pc = "done"
  /\ Tag = "complete"
  /\ resultWrites = 1
  /\ result # NoFile


\* answer.json is there and was written before the current question was asked
Leftover == answer # NoFile /\ stamp[1] < asked

\* C12: an answer.json left from before the question was asked is gone
\* before polling begins, so whatever the poll finds and reads was written
\* after that removal step; the call is resolved from that or from the
\* timeout defaults.
C12_NoStaleAnswer ==
  /\ pc \in AfterStalePcs => ~Leftover
  /\ pc \in AfterStalePcs /\ answer # NoFile => stamp[1] = asked /\ stamp[3]
  /\ Resolved => toolResult[1].via \in {"answer", "timeout"}
  /\ Resolved /\ toolResult[1].via = "timeout" =>
       toolResult[1].answers = DefaultAnswers(questions)

C12_Witness ==
  /\ Resolved
  /\ staleDropped
  /\ toolResult[1].via = "answer"
  /\ answer_data # None
  /\ "answers" \in answer_data[1].keys
  /\ toolResult[1].answers = ExplicitMapping

\* answer.json is there and was written for the current question while
\* question.json was visible
Fresh == answer # NoFile /\ stamp[1] = asked /\ stamp[2]

\* C13: an answer.json written once question.json is visible is never
\* deleted by the bridge before the bridge has read it, and the question is
\* not resolved by the timeout defaults while such an answer is there.
C13_NoAnswerLost ==
  /\ [][(Fresh /\ answer' = NoFile /\ pc' # pc) => (answer_data = answer)]_vars
  /\ [](Resolved /\ toolResult[1].via = "timeout" => ~Fresh)

\* positions of the default substitution, after the deadline check has passed
TimeoutPcs == { "to_unlink_q", "to_status", "return_default" }

\* C14: the wait sleeps exactly POLL_INTERVAL (2) between two polls; the
\* defaults are substituted only at a poll whose elapsed time is past
\* ANSWER_TIMEOUT (600); no poll past the deadline goes back to sleep, so the
\* wait ends at the first such poll, and the time slept by then is at most
\* one interval beyond the deadline.
C14_Deadline ==
  /\ [](pc \in TimeoutPcs =>
          /\ elapsed > ANSWER_TIMEOUT
          /\ elapsed - jitter <= ANSWER_TIMEOUT + POLL_INTERVAL)
  /\ [](pc = "sleep" => elapsed <= ANSWER_TIMEOUT)
  /\ [][(pc = "sleep" /\ pc' = "poll_exists") =>
          (elapsed' = elapsed + POLL_INTERVAL)]_vars
  /\ [][(pc # "poll_exists" /\ pc' = "poll_exists") =>
          (pc \in {"start_timer", "sleep"})]_vars
  /\ [][(pc \notin TimeoutPcs /\ pc' \in TimeoutPcs) =>
          (pc = "check_timeout" /\ answer_data = None)]_vars

C14_Witness ==
  /\ pc = "return_default"
  /\ elapsed = ANSWER_TIMEOUT + POLL_INTERVAL
  /\ jitter = 0
  /\ answer = NoFile

\* C15: result.json is written before the status derived from it: whenever
\* the status is complete, result.json exists and carries no error flag;
\* the status "Claude Code reported an error" is only there with a
\* result.json whose error flag is set; and the status written on a session
\* result is error exactly when the result's flag is set, complete otherwise.
C15_ResultBeforeStatus ==
  /\ [](Tag = "complete" => result # NoFile /\ ~result[1].is_error)
  /\ [](status = Status("error", "Claude Code reported an error") =>
          result # NoFile /\ result[1].is_error)
  /\ [](pc = "final_status" =>
          result # NoFile /\ result[1].is_error = message[1].is_error)
  /\ [][(pc = "final_status" /\ pc' = "session") =>
          (/\ result' = result
           /\ TagOf(status') = IF result[1].is_error THEN "error"
                                                     ELSE "complete")]_vars
  /\ [][(Tag # "complete" /\ TagOf(status') = "complete") =>
          (pc = "final_status")]_vars

C15_Witness ==
  /\ Tag = "complete"
  /\ pc = "session"
  /\ result = <<[subtype |-> "result", is_error |-> FALSE]>>
  /\ message = <<[is_error |-> FALSE]>>

====
